---- MODULE Spec2Model ----
(***************************************************************************)
(* The persistence layer of the MSAL.js browser client: BrowserStorage and  *)
(* AuthCache (the namespacing facade over Web Storage / a custom storage    *)
(* and the cookie mirror) and the older Storage class.                      *)
(*                                                                          *)
(* host is the environment (the named storage areas window exposes, and     *)
(* whether the custom storage rejects operations), cacheLocation the        *)
(* instance's field, migration the progress of migrateCacheEntries, storage *)
(* and cookies the storage areas and document.cookie, last and prev the two *)
(* calls made last, nOps the number of facade calls made, tasks the async    *)
(* calls in flight or completed when the calls are followed await by await. *)
(* Storage_instance is the static field Storage.instance.                   *)
(*                                                                          *)
(* A JavaScript string is a sequence of one-character strings, so that      *)
(* indexOf, split, match, JSON.parse and string concatenation are computed  *)
(* character by character as the code computes them.                        *)
(***************************************************************************)
EXTENDS Integers, Sequences, FiniteSets, TLC

VARIABLES host, cacheLocation, migration, storage, cookies, last, prev, nOps, tasks,
          Storage_instance

vars == <<host, cacheLocation, migration, storage, cookies, last, prev, nOps, tasks,
          Storage_instance>>

----------------------------------------------------------------------------
(* JavaScript values and built-ins used by the code *)

\* null / undefined: a one-element tuple whose element is no single character,
\* so it differs from every string.
Null == <<"null">>

EmptyString == <<>>

\* ToBoolean of a string-or-null value: "" , null and undefined are falsy.
Truthy(v) == v # Null /\ v # EmptyString

MinOf(S) == CHOOSE i \in S : \A j \in S : i <= j

\* F(v) and F(a, b), the arguments evaluated once before the call (JavaScript
\* passes arguments by value).
Bind(v, F(_)) == CHOOSE r \in {F(x) : x \in {v}} : TRUE

Bind2(a, b, F(_, _)) == CHOOSE r \in {F(x, y) : x \in {a}, y \in {b}} : TRUE

\* String.prototype.indexOf(t): 0-based index of the first occurrence, or -1.
IndexOf(str, sub) ==
    Bind2(str, sub, LAMBDA s, t :
        Bind({i \in 1..(Len(s) - Len(t) + 1) : SubSeq(s, i, i + Len(t) - 1) = t},
             LAMBDA hits : IF hits = {} THEN -1 ELSE MinOf(hits) - 1))

\* String.prototype.split(d) for a one-character separator d.
RECURSIVE Split(_, _)
Split(str, d) ==
    Bind2(str, IndexOf(str, d), LAMBDA s, i :
        IF i = -1 THEN <<s>>
        ELSE <<SubSeq(s, 1, i)>> \o Split(SubSeq(s, i + 2, Len(s)), d))

\* The `while (c.charAt(0) === " ") c = c.substring(1)` loop of getItemCookie.
RECURSIVE TrimLeadingSpaces(_)
TrimLeadingSpaces(str) ==
    Bind(str, LAMBDA c :
        IF Len(c) > 0 /\ c[1] = " " THEN TrimLeadingSpaces(Tail(c)) ELSE c)

Digits == {"0", "1", "2", "3", "4", "5", "6", "7", "8", "9"}

\* JSON.parse as a recogniser: position after the value that starts at i, or 0.
\* Values: string literals, digit runs, true/false/null, and objects whose
\* members are "name":scalar pairs.
JsonString(s, at) ==
    Bind(at, LAMBDA i :
        IF i <= Len(s) /\ s[i] = "\""
        THEN Bind({j \in (i + 1)..Len(s) : s[j] = "\""},
                  LAMBDA close : IF close = {} THEN 0 ELSE MinOf(close) + 1)
        ELSE 0)

JsonNumber(s, at) ==
    Bind(at, LAMBDA i :
        IF i <= Len(s) /\ s[i] \in Digits
        THEN Bind({j \in i..Len(s) : s[j] \notin Digits},
                  LAMBDA stop : IF stop = {} THEN Len(s) + 1 ELSE MinOf(stop))
        ELSE 0)

JsonLiteral(s, at) ==
    Bind2(at, {<<"t", "r", "u", "e">>, <<"f", "a", "l", "s", "e">>, <<"n", "u", "l", "l">>}, LAMBDA i, lits :
        Bind({l \in lits : i + Len(l) - 1 <= Len(s) /\ SubSeq(s, i, i + Len(l) - 1) = l},
             LAMBDA ok : IF ok = {} THEN 0 ELSE i + Len(CHOOSE l \in ok : TRUE)))

JsonScalar(s, at) ==
    Bind(at, LAMBDA i :
        Bind2(JsonString(s, i), JsonNumber(s, i), LAMBDA str, num :
            IF str # 0 THEN str ELSE IF num # 0 THEN num ELSE JsonLiteral(s, i)))

RECURSIVE JsonMembers(_, _)
JsonMembers(s, at) ==
    Bind(JsonString(s, at), LAMBDA n :
        Bind(IF n # 0 /\ n <= Len(s) /\ s[n] = ":" THEN JsonScalar(s, n + 1) ELSE 0,
             LAMBDA v :
                IF v = 0 THEN 0
                ELSE IF v <= Len(s) /\ s[v] = "," THEN JsonMembers(s, v + 1)
                ELSE v))

JsonObject(s, at) ==
    Bind(at, LAMBDA i :
        IF i <= Len(s) /\ s[i] = "{"
        THEN IF i + 1 <= Len(s) /\ s[i + 1] = "}" THEN i + 2
             ELSE Bind(JsonMembers(s, i + 1), LAMBDA m :
                      IF m # 0 /\ m <= Len(s) /\ s[m] = "}" THEN m + 1 ELSE 0)
        ELSE 0)

\* TRUE iff JSON.parse(s) returns instead of throwing. JSON.parse(null) converts
\* its argument to the text "null" and returns null.
JSONParses(text) ==
    Bind(text, LAMBDA s :
        IF s = Null THEN TRUE
        ELSE Bind2(JsonObject(s, 1), JsonScalar(s, 1), LAMBDA obj, scalar :
                 (IF obj # 0 THEN obj ELSE scalar) = Len(s) + 1))

\* String.prototype.match(p): the string p is compiled as a regular expression.
\* Of the metacharacters, "." (any character) and "+" (one or more of the
\* preceding character) are interpreted; every other character is literal.
RegexCharMatches(pc, c) == pc = "." \/ pc = c

RECURSIVE RegexMatchHere(_, _, _, _)
RegexMatchHere(p, pi, s, sj) ==
    \E i \in {pi}, j \in {sj} :
        IF i > Len(p) THEN TRUE
        ELSE IF i + 1 <= Len(p) /\ p[i + 1] = "+"
        THEN \E n \in 1..(Len(s) - j + 1) :
                /\ \A m \in j..(j + n - 1) : RegexCharMatches(p[i], s[m])
                /\ RegexMatchHere(p, i + 2, s, j + n)
        ELSE /\ j <= Len(s)
             /\ RegexCharMatches(p[i], s[j])
             /\ RegexMatchHere(p, i + 1, s, j + 1)

\* Truthiness of key.match(p): a match anywhere in the key.
Match(str, pattern) ==
    \E s \in {str}, p \in {pattern} : \E j \in 1..(Len(s) + 1) : RegexMatchHere(p, 1, s, j)

----------------------------------------------------------------------------
(* utils/Constants: the literals the storage classes import *)

cachePrefix == <<"m", "s", "a", "l">>
adalIdToken == <<"a", "d", "a", "l", ".", "i", "d", "t", "o", "k", "e", "n">>
resourceDelimiter == <<"|">>
inProgress == <<"i", "n", " ", "p", "r", "o", "g", "r", "e", "s", "s">>

PersistentCacheKeys_IDTOKEN == <<"i", "d", "t", "o", "k", "e", "n">>
PersistentCacheKeys_CLIENT_INFO == <<"c", "l", "i", "e", "n", "t", ".", "i", "n", "f", "o">>
ErrorCacheKeys_ERROR == <<"e", "r", "r", "o", "r">>
ErrorCacheKeys_ERROR_DESC == <<"e", "r", "r", "o", "r", ".", "d", "e", "s", "c", "r", "i", "p", "t", "i", "o", "n">>
TemporaryCacheKeys_AUTHORITY == <<"a", "u", "t", "h", "o", "r", "i", "t", "y">>
TemporaryCacheKeys_ACQUIRE_TOKEN_ACCOUNT == <<"a", "c", "q", "u", "i", "r", "e", "T", "o", "k", "e", "n", "A", "c", "c", "o", "u", "n", "t">>
TemporaryCacheKeys_RENEW_STATUS == <<"t", "o", "k", "e", "n", ".", "r", "e", "n", "e", "w", ".", "s", "t", "a", "t", "u", "s">>
TemporaryCacheKeys_INTERACTION_STATUS == <<"i", "n", "t", "e", "r", "a", "c", "t", "i", "o", "n", "_", "s", "t", "a", "t", "u", "s">>
TemporaryCacheKeys_REDIRECT_REQUEST == <<"r", "e", "d", "i", "r", "e", "c", "t", "_", "r", "e", "q", "u", "e", "s", "t">>
TemporaryCacheKeys_NONCE_IDTOKEN == <<"n", "o", "n", "c", "e", ".", "i", "d", "t", "o", "k", "e", "n">>
TemporaryCacheKeys_STATE_LOGIN == <<"s", "t", "a", "t", "e", ".", "l", "o", "g", "i", "n">>
TemporaryCacheKeys_LOGIN_REQUEST == <<"l", "o", "g", "i", "n", ".", "r", "e", "q", "u", "e", "s", "t">>
TemporaryCacheKeys_STATE_ACQ_TOKEN == <<"s", "t", "a", "t", "e", ".", "a", "c", "q", "u", "i", "r", "e", "T", "o", "k", "e", "n">>

\* The literals of the older Storage class (Constants / CacheKeys).
Constants_msal == <<"m", "s", "a", "l">>
Constants_renewStatus == <<"m", "s", "a", "l", ".", "t", "o", "k", "e", "n", ".", "r", "e", "n", "e", "w", ".", "s", "t", "a", "t", "u", "s">>
Constants_tokenRenewStatusInProgress == <<"i", "n", " ", "p", "r", "o", "g", "r", "e", "s", "s">>
Constants_stateLogin == <<"m", "s", "a", "l", ".", "s", "t", "a", "t", "e", ".", "l", "o", "g", "i", "n">>
Constants_stateAcquireToken == <<"m", "s", "a", "l", ".", "s", "t", "a", "t", "e", ".", "a", "c", "q", "u", "i", "r", "e", "T", "o", "k", "e", "n">>
Constants_nonceIdToken == <<"m", "s", "a", "l", ".", "n", "o", "n", "c", "e", ".", "i", "d", "t", "o", "k", "e", "n">>
Constants_loginRequest == <<"m", "s", "a", "l", ".", "l", "o", "g", "i", "n", ".", "r", "e", "q", "u", "e", "s", "t">>
CacheKeys_AUTHORITY == <<"m", "s", "a", "l", ".", "a", "u", "t", "h", "o", "r", "i", "t", "y">>
CacheKeys_ACQUIRE_TOKEN_ACCOUNT == <<"m", "s", "a", "l", ".", "a", "c", "q", "u", "i", "r", "e", "T", "o", "k", "e", "n", "A", "c", "c", "o", "u", "n", "t">>

----------------------------------------------------------------------------
(* The host environment: a storage area and document.cookie *)

\* A storage area (window.localStorage, window.sessionStorage or a custom storage
\* that implements every method) is a sequence of entries in enumeration order.
AreaGetItem(area, k) ==
    Bind2(area, k, LAMBDA b, key :
        Bind({i \in 1..Len(b) : b[i].key = key},
             LAMBDA hits : IF hits = {} THEN Null ELSE b[MinOf(hits)].value))

AreaSetItem(area, k, v) ==
    Bind2(area, [key |-> k, value |-> v], LAMBDA b, e :
        IF \E i \in 1..Len(b) : b[i].key = e.key
        THEN [i \in 1..Len(b) |-> IF b[i].key = e.key THEN e ELSE b[i]]
        ELSE Append(b, e))

AreaRemoveItem(area, k) ==
    Bind2(area, k, LAMBDA b, key : SelectSeq(b, LAMBDA e : e.key # key))

\* Object.keys(storage) / storage.getAllKeys()
AreaKeys(area) == Bind(area, LAMBDA b : [i \in 1..Len(b) |-> b[i].key])

\* Date.toUTCString() of now + cookieLifeDays: only whether it lies in the past matters.
getCookieExpirationTime(cookieLifeDays) ==
    IF cookieLifeDays < 0 THEN <<"T", "h", "u", ",", " ", "0", "1", " ", "J", "a", "n", " ", "1", "9", "7", "0">> ELSE <<"F", "r", "i", ",", " ", "3", "1", " ", "D", "e", "c", " ", "9", "9", "9", "9">>

\* The cookie a cookie string names: name=value from its first ;-separated part,
\* and whether an expires attribute lies in the past.
ParseCookieString(cookieStr) ==
    Bind(Split(cookieStr, <<";">>), LAMBDA parts :
        Bind(IndexOf(parts[1], <<"=">>), LAMBDA eq :
            [name |-> SubSeq(parts[1], 1, eq),
             value |-> SubSeq(parts[1], eq + 2, Len(parts[1])),
             expired |-> \E i \in 2..Len(parts) :
                            parts[i] = <<"e", "x", "p", "i", "r", "e", "s", "=">> \o getCookieExpirationTime(-1)]))

\* Assignment to document.cookie: the browser stores the cookie under its name,
\* replacing an older one, and drops it when it has expired.
DocumentCookieAssign(cookieJar, cookieStr) ==
    Bind2(cookieJar, ParseCookieString(cookieStr), LAMBDA jar, c :
        IF c.expired THEN SelectSeq(jar, LAMBDA x : x.name # c.name)
        ELSE IF \E i \in 1..Len(jar) : jar[i].name = c.name
        THEN [i \in 1..Len(jar) |->
                 IF jar[i].name = c.name THEN [name |-> c.name, value |-> c.value]
                 ELSE jar[i]]
        ELSE Append(jar, [name |-> c.name, value |-> c.value]))

\* Reading document.cookie: "n1=v1; n2=v2; ..."
RECURSIVE DocumentCookie(_)
DocumentCookie(cookieJar) ==
    Bind(cookieJar, LAMBDA jar :
        IF jar = <<>> THEN EmptyString
        ELSE jar[1].name \o <<"=">> \o jar[1].value \o
             (IF Len(jar) > 1 THEN <<";", " ">> \o DocumentCookie(Tail(jar)) ELSE EmptyString))

----------------------------------------------------------------------------
(* BrowserStorage and AuthCache.  w is the world of one call: store, the      *)
(* active storage area; jar, the cookie jar; log, the storage operations and  *)
(* cookie writes made so far, in order; err, the exception being thrown;      *)
(* calls, the number of storage operations made; failAt, the operation the    *)
(* custom storage rejects; exposed and custom, what getStorage() returns.     *)
(* Every operator returns the world after the call.                           *)

CustomStorageInstance == "customStorage"

CacheLocations == {"localStorage", "sessionStorage", CustomStorageInstance}

\* BrowserStorage.getStorage: the storage area the instance reads and writes.
getStorage(location) ==
    IF location = "localStorage" THEN "localStorage"
    ELSE IF location = "sessionStorage" THEN "sessionStorage"
    ELSE IF location = CustomStorageInstance THEN CustomStorageInstance
    ELSE "Unsupported storage type"

\* The errors: CustomStorageNotImplementedError is what a method of CustomStorage
\* that the host did not override throws; TypeError is what a method call on a
\* storage area that window does not expose throws.
NoError == "none"

CustomStorageNotImplementedError == "CustomStorageNotImplementedError"

TypeError == "TypeError"

StorageNotSupportedError == "ClientConfigurationError.storageNotSupportedError"

Undefined == "undefined"

Thrown(w) == w.err # NoError

StorageCall_swallow(world, method, key, awaited, result) ==
    Bind2(world, result, LAMBDA w, s :
        IF Thrown(w) \/ ~w.exposed THEN w
        ELSE Bind(w.failAt = w.calls + 1, LAMBDA rejected :
                 [w EXCEPT !.calls = @ + 1,
                           !.log = Append(@, [kind |-> method, key |-> key,
                                              awaited |-> awaited, rejected |-> rejected]),
                           !.store = IF rejected THEN @ ELSE s]))

\* One operation of the storage area (storageLocation.setItem / getItem /
\* removeItem / getAllKeys), result being the area after it.  It is not reached
\* while an exception propagates; it throws when the area does not exist or the
\* custom storage rejects it; the exception reaches the caller only through an
\* await (or a synchronous call chain that is awaited).
StorageCall(world, method, key, awaited, result) ==
    Bind2(world, result, LAMBDA w, s :
        IF Thrown(w) THEN w
        ELSE IF ~w.exposed THEN (IF awaited THEN [w EXCEPT !.err = TypeError] ELSE w)
        ELSE Bind(w.failAt = w.calls + 1, LAMBDA rejected :
                 [w EXCEPT !.calls = @ + 1,
                           !.log = Append(@, [kind |-> method, key |-> key,
                                              awaited |-> awaited, rejected |-> rejected]),
                           !.store = IF rejected THEN @ ELSE s,
                           !.err = IF rejected /\ awaited
                                   THEN CustomStorageNotImplementedError ELSE @]))

\* storage instanceof CustomStorage ? await storage.getAllKeys() : Object.keys(storage)
StorageKeys(w) == StorageCall(w, "getAllKeys", Null, TRUE, w.store)

\* BrowserStorage.constructor: the support check reads this.cacheLocation, which
\* is assigned only after it.
BrowserStorage_constructor(this, window, location) ==
    IF /\ this.cacheLocation \in {"localStorage", "sessionStorage"}
       /\ this.cacheLocation \notin window
    THEN [this EXCEPT !.err = StorageNotSupportedError]
    ELSE [this EXCEPT !.cacheLocation = location]

clientId == <<"a", "1">>

\* The storeAuthStateInCookie argument of the AuthCache constructor.
storeAuthStateInCookie == FALSE

rollbackEnabled_off == FALSE

rollbackEnabled == TRUE

generateCacheKey_alwaysPrefix(cid, key, addInstanceId) ==
    IF JSONParses(key) THEN key
    ELSE IF addInstanceId THEN cachePrefix \o <<".">> \o cid \o <<".">> \o key
    ELSE cachePrefix \o <<".">> \o key

\* AuthCache.generateCacheKey
generateCacheKey(cid, key, addInstanceId) ==
    IF JSONParses(key) THEN key
    ELSE IF IndexOf(key, cachePrefix) = 0 \/ IndexOf(key, adalIdToken) = 0 THEN key
    ELSE IF addInstanceId THEN cachePrefix \o <<".">> \o cid \o <<".">> \o key
    ELSE cachePrefix \o <<".">> \o key

\* BrowserStorage.setItemCookie; expires = 0 stands for an omitted argument.
BrowserStorage_setItemCookie(w, cName, cValue, expires) ==
    LET base == cName \o <<"=">> \o cValue \o <<";", "p", "a", "t", "h", "=", "/", ";">>
        cookieStr == IF expires # 0
                     THEN base \o <<"e", "x", "p", "i", "r", "e", "s", "=">> \o getCookieExpirationTime(expires) \o <<";">>
                     ELSE base
    IN  IF Thrown(w) THEN w
        ELSE [w EXCEPT !.jar = DocumentCookieAssign(@, cookieStr),
                       !.log = Append(@, [kind |-> "cookie", key |-> cName,
                                          awaited |-> TRUE, rejected |-> FALSE])]

\* BrowserStorage.getItemCookie
BrowserStorage_getItemCookie(w, cName) ==
    Bind2(cName \o <<"=">>, Split(DocumentCookie(w.jar), <<";">>), LAMBDA name, ca :
        Bind({i \in 1..Len(ca) : IndexOf(TrimLeadingSpaces(ca[i]), name) = 0}, LAMBDA hits :
            IF hits = {} THEN EmptyString
            ELSE Bind(TrimLeadingSpaces(ca[MinOf(hits)]),
                      LAMBDA c : SubSeq(c, Len(name) + 1, Len(c)))))

\* AuthCache.setItemCookie
AuthCache_setItemCookie(w, cName, cValue, expires, cid) ==
    LET w1 == BrowserStorage_setItemCookie(w, generateCacheKey(cid, cName, TRUE), cValue, expires)
    IN  IF rollbackEnabled
        THEN BrowserStorage_setItemCookie(w1, generateCacheKey(cid, cName, FALSE), cValue, expires)
        ELSE w1

\* AuthCache.getItemCookie
AuthCache_getItemCookie(w, cName, cid) ==
    BrowserStorage_getItemCookie(w, generateCacheKey(cid, cName, TRUE))

\* BrowserStorage.clearItemCookie (this.setItemCookie is AuthCache's override)
clearItemCookie(w, cName, cid) == AuthCache_setItemCookie(w, cName, EmptyString, -1, cid)

BrowserStorage_setItem_noCookie(w, key, value, enableCookieStorage, cid) ==
    StorageCall(w, "setItem", key, TRUE, AreaSetItem(w.store, key, value))

\* BrowserStorage.setItem (this.setItemCookie is AuthCache's override)
BrowserStorage_setItem(w, key, value, enableCookieStorage, cid) ==
    LET w1 == StorageCall(w, "setItem", key, TRUE, AreaSetItem(w.store, key, value))
    IN  IF enableCookieStorage THEN AuthCache_setItemCookie(w1, key, value, 0, cid) ELSE w1

BrowserStorage_getItem_noCookie(w, key, enableCookieStorage, cid) ==
    AreaGetItem(w.store, key)

\* BrowserStorage.getItem (this.getItemCookie is AuthCache's override)
BrowserStorage_getItem(world, key, enableCookieStorage, cid) ==
    Bind(world, LAMBDA w :
        IF enableCookieStorage /\ Truthy(AuthCache_getItemCookie(w, key, cid))
        THEN AuthCache_getItemCookie(w, key, cid)
        ELSE AreaGetItem(w.store, key))

\* The storage operations of BrowserStorage.getItem.
BrowserStorage_getItem_calls(world, key, enableCookieStorage, cid, awaited) ==
    Bind(world, LAMBDA w :
        IF Thrown(w) THEN w
        ELSE IF enableCookieStorage /\ Truthy(AuthCache_getItemCookie(w, key, cid)) THEN w
        ELSE StorageCall(w, "getItem", key, awaited, w.store))

BrowserStorage_removeItem_clear(w, key) ==
    StorageCall(w, "clear", key, TRUE, <<>>)

\* BrowserStorage.removeItem
BrowserStorage_removeItem(w, key) ==
    StorageCall(w, "removeItem", key, TRUE, AreaRemoveItem(w.store, key))

AuthCache_setItem_legacyOnly(w, key, value, enableCookieStorage, cid) ==
    LET w1 == BrowserStorage_setItem(w, generateCacheKey(cid, key, FALSE), value,
                                     enableCookieStorage, cid)
    IN  IF rollbackEnabled
        THEN BrowserStorage_setItem(w1, generateCacheKey(cid, key, FALSE), value,
                                    enableCookieStorage, cid)
        ELSE w1

\* AuthCache.setItem
AuthCache_setItem(w, key, value, enableCookieStorage, cid) ==
    LET w1 == BrowserStorage_setItem(w, generateCacheKey(cid, key, TRUE), value,
                                     enableCookieStorage, cid)
    IN  IF rollbackEnabled
        THEN BrowserStorage_setItem(w1, generateCacheKey(cid, key, FALSE), value,
                                    enableCookieStorage, cid)
        ELSE w1

AuthCache_getItem_legacy(w, key, enableCookieStorage, cid) ==
    BrowserStorage_getItem(w, generateCacheKey(cid, key, FALSE), enableCookieStorage, cid)

\* AuthCache.getItem
AuthCache_getItem(w, key, enableCookieStorage, cid) ==
    BrowserStorage_getItem(w, generateCacheKey(cid, key, TRUE), enableCookieStorage, cid)

\* The storage operations of AuthCache.getItem.
AuthCache_getItem_calls(w, key, enableCookieStorage, cid, awaited) ==
    BrowserStorage_getItem_calls(w, generateCacheKey(cid, key, TRUE), enableCookieStorage,
                                 cid, awaited)

\* AuthCache.removeItem
AuthCache_removeItem(w, key, cid) ==
    LET w1 == BrowserStorage_removeItem(w, generateCacheKey(cid, key, TRUE))
    IN  IF rollbackEnabled
        THEN BrowserStorage_removeItem(w1, generateCacheKey(cid, key, FALSE))
        ELSE w1

AuthCache_resetCacheItems_clear(w) == StorageCall(w, "clear", Null, TRUE, <<>>)

\* AuthCache.resetCacheItems
RECURSIVE resetCacheItemsLoop(_, _)
resetCacheItemsLoop(world, rest) ==
    Bind2(world, rest, LAMBDA w, keys :
        IF keys = <<>> THEN w
        ELSE resetCacheItemsLoop(
                 IF IndexOf(Head(keys), cachePrefix) # -1
                 THEN BrowserStorage_removeItem(w, Head(keys))
                 ELSE w,
                 Tail(keys)))

AuthCache_resetCacheItems(w) ==
    Bind(StorageKeys(w), LAMBDA w0 :
        IF Thrown(w0) THEN w0 ELSE resetCacheItemsLoop(w0, AreaKeys(w0.store)))

\* The Promise an async function returns, settled with v.
Promise(v) == [settled |-> v]

\* ToBoolean of an object: every object, a Promise included, is truthy.
ObjectTruthy(o) == TRUE

AuthCache_tokenRenewalInProgress_anyValue(w, stateValue, cid) ==
    Promise(Truthy(AuthCache_getItem(
                w, TemporaryCacheKeys_RENEW_STATUS \o <<"|">> \o stateValue, FALSE, cid)))

\* AuthCache.tokenRenewalInProgress
AuthCache_tokenRenewalInProgress(w, stateValue, cid) ==
    LET renewStatus == AuthCache_getItem(
            w, TemporaryCacheKeys_RENEW_STATUS \o <<"|">> \o stateValue, FALSE, cid)
    IN  Promise(Truthy(renewStatus) /\ renewStatus = inProgress)

\* The storage operations of AuthCache.tokenRenewalInProgress.
AuthCache_tokenRenewalInProgress_calls(w, stateValue, cid, awaited) ==
    AuthCache_getItem_calls(w, TemporaryCacheKeys_RENEW_STATUS \o <<"|">> \o stateValue,
                            FALSE, cid, awaited)

\* AuthCache.clearMsalCookie
clearMsalCookie(w, state, cid) ==
    LET w1 == clearItemCookie(w, TemporaryCacheKeys_NONCE_IDTOKEN \o <<"|">> \o state, cid)
        w2 == clearItemCookie(w1, TemporaryCacheKeys_STATE_LOGIN \o <<"|">> \o state, cid)
        w3 == clearItemCookie(w2, TemporaryCacheKeys_LOGIN_REQUEST \o <<"|">> \o state, cid)
    IN  clearItemCookie(w3, TemporaryCacheKeys_STATE_ACQ_TOKEN \o <<"|">> \o state, cid)

resetTempShouldRemove_noGate(w, key, state, cid) ==
    ~Truthy(state) \/ IndexOf(key, state) # -1

\* The condition of the scan in AuthCache.resetTempCacheItems: the operand of `!`
\* is the Promise that tokenRenewalInProgress returns, not its settled value.
resetTempShouldRemove(w, key, state, cid) ==
    /\ (~Truthy(state) \/ IndexOf(key, state) # -1)
    /\ ~ObjectTruthy(AuthCache_tokenRenewalInProgress(w, state, cid))

\* One round of the scan: when the key matches the state, tokenRenewalInProgress
\* is called (and its read started) without an await.
resetTempStep(world, key, state, cid) ==
    Bind(world, LAMBDA w :
        Bind(IF ~Truthy(state) \/ IndexOf(key, state) # -1
             THEN AuthCache_tokenRenewalInProgress_calls(w, state, cid, FALSE)
             ELSE w,
             LAMBDA w1 :
                 IF resetTempShouldRemove(w, key, state, cid)
                 THEN clearMsalCookie(
                          AuthCache_setItemCookie(AuthCache_removeItem(w1, key, cid),
                                                  key, EmptyString, -1, cid),
                          state, cid)
                 ELSE w1))

RECURSIVE resetTempLoop(_, _, _, _)
resetTempLoop(world, rest, state, cid) ==
    Bind2(world, rest, LAMBDA w, keys :
        IF keys = <<>> THEN w
        ELSE resetTempLoop(resetTempStep(w, Head(keys), state, cid),
                           Tail(keys), state, cid))

AuthCache_resetTempCacheItems_scanOnly(w, state, cid) ==
    Bind(StorageKeys(w), LAMBDA w0 :
        IF Thrown(w0) THEN w0 ELSE resetTempLoop(w0, AreaKeys(w0.store), state, cid))

\* AuthCache.resetTempCacheItems
AuthCache_resetTempCacheItems(w, state, cid) ==
    Bind(StorageKeys(w), LAMBDA w0 :
        IF Thrown(w0) THEN w0
        ELSE LET w1 == resetTempLoop(w0, AreaKeys(w0.store), state, cid)
                 w2 == AuthCache_removeItem(w1, TemporaryCacheKeys_INTERACTION_STATUS, cid)
             IN  AuthCache_removeItem(w2, TemporaryCacheKeys_REDIRECT_REQUEST, cid))

\* AuthCache.getAllAccessTokens: the AccessTokenCacheItem list, each item given
\* by the key and value texts it was decoded from.
RECURSIVE getAllAccessTokensLoop(_, _, _, _, _)
getAllAccessTokensLoop(w, rest, cid, homeAccountIdentifier, self) ==
    Bind(rest, LAMBDA keys :
        IF keys = <<>> THEN <<>>
        ELSE Bind2(Head(keys), AuthCache_getItem(w, Head(keys), FALSE, self),
                   LAMBDA key, value :
                       IF /\ Match(key, cid)
                          /\ Match(key, homeAccountIdentifier)
                          /\ JSONParses(key)
                          /\ JSONParses(value)
                       THEN <<[key |-> key, value |-> value]>>
                       ELSE <<>>)
             \o getAllAccessTokensLoop(w, Tail(keys), cid, homeAccountIdentifier, self))

AuthCache_getAllAccessTokens(w, cid, homeAccountIdentifier, self) ==
    getAllAccessTokensLoop(w, AreaKeys(w.store), cid, homeAccountIdentifier, self)

\* The storage operations of AuthCache.getAllAccessTokens: the enumeration, then
\* an awaited getItem for each key that matches.
RECURSIVE getAllAccessTokensCalls(_, _, _, _, _)
getAllAccessTokensCalls(world, rest, cid, homeAccountIdentifier, self) ==
    Bind2(world, rest, LAMBDA w, keys :
        IF keys = <<>> THEN w
        ELSE getAllAccessTokensCalls(
                 IF Match(Head(keys), cid) /\ Match(Head(keys), homeAccountIdentifier)
                 THEN AuthCache_getItem_calls(w, Head(keys), FALSE, self, TRUE)
                 ELSE w,
                 Tail(keys), cid, homeAccountIdentifier, self))

AuthCache_getAllAccessTokens_calls(w, cid, homeAccountIdentifier, self) ==
    Bind(StorageKeys(w), LAMBDA w0 :
        IF Thrown(w0) THEN w0
        ELSE getAllAccessTokensCalls(w0, AreaKeys(w0.store), cid, homeAccountIdentifier, self))

\* The keys AuthCache.migrateCacheEntries reads and the keys it writes them under.
migrateKeys ==
    << PersistentCacheKeys_IDTOKEN, PersistentCacheKeys_CLIENT_INFO,
       ErrorCacheKeys_ERROR, ErrorCacheKeys_ERROR_DESC >>

legacyKeyOf(cacheKey) == cachePrefix \o <<".">> \o cacheKey

\* AuthCache.constructor up to its return: super(), then migrateCacheEntries runs
\* up to its first await, which starts the read of the legacy id-token key; no
\* exception of migrateCacheEntries reaches the constructor.
AuthCache_constructor(w, this, window, location) ==
    Bind(BrowserStorage_constructor(this, window, location), LAMBDA t :
        IF t.err # NoError THEN [this |-> t, world |-> w]
        ELSE [this |-> t,
              world |-> BrowserStorage_getItem_calls(w, legacyKeyOf(migrateKeys[1]),
                                                     FALSE, clientId, FALSE)])

\* AuthCache.duplicateCacheEntry: the setItem it calls is not awaited.
duplicateCacheEntry(w, newKey, value, cookie, cid) ==
    IF Truthy(value) THEN AuthCache_setItem(w, newKey, value, cookie, cid) ELSE w

\* AuthCache.migrateCacheEntries after its first await: idTokenValue is what the
\* read started by the constructor returned; the other three reads follow, then
\* the four duplicateCacheEntry calls.
RECURSIVE migrateReads(_, _)
migrateReads(world, i) ==
    Bind(world, LAMBDA w :
        IF i > Len(migrateKeys) THEN w
        ELSE migrateReads(BrowserStorage_getItem_calls(w, legacyKeyOf(migrateKeys[i]),
                                                       FALSE, clientId, TRUE), i + 1))

RECURSIVE migrateWrites(_, _, _, _)
migrateWrites(world, values, i, cookie) ==
    Bind(world, LAMBDA w :
        IF i > Len(migrateKeys) THEN w
        ELSE migrateWrites(duplicateCacheEntry(w, migrateKeys[i], values[i], cookie, clientId),
                           values, i + 1, cookie))

AuthCache_migrateCacheEntries(w, idTokenValue, cookie) ==
    Bind(migrateReads(w, 2), LAMBDA w1 :
        IF Thrown(w1) THEN w1
        ELSE migrateWrites(w1,
                 [i \in 1..Len(migrateKeys) |->
                     IF i = 1 THEN idTokenValue
                     ELSE AreaGetItem(w.store, legacyKeyOf(migrateKeys[i]))],
                 1, cookie))

\* AuthCache.generateAuthorityKey / generateAcquireTokenAccountKey
generateAuthorityKey(state) ==
    TemporaryCacheKeys_AUTHORITY \o resourceDelimiter \o state

generateAcquireTokenAccountKey(accountId, state) ==
    TemporaryCacheKeys_ACQUIRE_TOKEN_ACCOUNT \o resourceDelimiter \o accountId
        \o resourceDelimiter \o state

----------------------------------------------------------------------------
(* The older Storage class (lib/msal-core/src/Storage.ts): raw keys, no      *)
(* namespacing.                                                              *)

\* Storage.removeItem
Storage_removeItem(w, key, awaited) ==
    StorageCall(w, "removeItem", key, awaited, AreaRemoveItem(w.store, key))

\* Storage.setItemCookie
Storage_setItemCookie(w, cName, cValue, expires) ==
    LET base == cName \o <<"=">> \o cValue \o <<";">>
        cookieStr == IF expires # 0
                     THEN base \o <<"e", "x", "p", "i", "r", "e", "s", "=">> \o getCookieExpirationTime(expires) \o <<";">>
                     ELSE base
    IN  IF Thrown(w) THEN w
        ELSE [w EXCEPT !.jar = DocumentCookieAssign(@, cookieStr),
                       !.log = Append(@, [kind |-> "cookie", key |-> cName,
                                          awaited |-> TRUE, rejected |-> FALSE])]

\* Storage.clearCookie
Storage_clearCookie(w) ==
    LET w1 == Storage_setItemCookie(w, Constants_nonceIdToken, EmptyString, -1)
        w2 == Storage_setItemCookie(w1, Constants_stateLogin, EmptyString, -1)
        w3 == Storage_setItemCookie(w2, Constants_loginRequest, EmptyString, -1)
    IN  Storage_setItemCookie(w3, Constants_stateAcquireToken, EmptyString, -1)

\* Storage.tokenRenewalInProgress
Storage_tokenRenewalInProgress(w, stateValue) ==
    LET renewStatus == AreaGetItem(w.store, Constants_renewStatus \o stateValue)
    IN  Promise(~(~Truthy(renewStatus) \/ renewStatus # Constants_tokenRenewStatusInProgress))

\* The storage operation of Storage.tokenRenewalInProgress.
Storage_tokenRenewalInProgress_calls(w, stateValue, awaited) ==
    StorageCall(w, "getItem", Constants_renewStatus \o stateValue, awaited, w.store)

\* The body of the scan in Storage.removeAcquireTokenEntries for one key.  The
\* inner `let state` shadows the argument; the operand of `!` is a Promise.
removeAcquireTokenEntriesStep(w, key, state) ==
    IF /\ \/ IndexOf(key, CacheKeys_AUTHORITY) # -1
          \/ IndexOf(key, CacheKeys_ACQUIRE_TOKEN_ACCOUNT) # 1
       /\ (~Truthy(state) \/ IndexOf(key, state) # -1)
    THEN Bind(Split(key, resourceDelimiter), LAMBDA splitKey :
             Bind(IF Len(splitKey) > 1 THEN splitKey[2] ELSE Null, LAMBDA inner :
                 Bind(IF Truthy(inner)
                      THEN Storage_tokenRenewalInProgress_calls(w, inner, FALSE)
                      ELSE w,
                      LAMBDA w0 :
                 IF Truthy(inner) /\ ~ObjectTruthy(Storage_tokenRenewalInProgress(w, inner))
                 THEN LET w1 == Storage_removeItem(w0, key, FALSE)
                          w2 == Storage_removeItem(w1, Constants_renewStatus \o inner, FALSE)
                          w3 == Storage_removeItem(w2, Constants_stateLogin, FALSE)
                          w4 == Storage_removeItem(w3, Constants_stateAcquireToken, FALSE)
                      IN  Storage_setItemCookie(w4, key, EmptyString, -1)
                 ELSE w0)))
    ELSE w

RECURSIVE removeAcquireTokenEntriesLoop(_, _, _)
removeAcquireTokenEntriesLoop(world, rest, state) ==
    Bind2(world, rest, LAMBDA w, keys :
        IF keys = <<>> THEN w
        ELSE removeAcquireTokenEntriesLoop(
                 removeAcquireTokenEntriesStep(w, Head(keys), state), Tail(keys), state))

\* Storage.removeAcquireTokenEntries; state = "" stands for an omitted argument.
Storage_removeAcquireTokenEntries(w, state) ==
    Bind(StorageKeys(w), LAMBDA w0 :
        IF Thrown(w0) THEN w0
        ELSE Storage_clearCookie(
                 removeAcquireTokenEntriesLoop(w0, AreaKeys(w0.store), state)))

Storage_NoStorageSupportedError == "ClientConfigurationError.noStorageSupportedError"

\* Storage.instance before the first successful construction; the objects under
\* construction are numbered from 1.
NoInstance == [id |-> 0, cacheLocation |-> Undefined]

Storage_constructor_noSingleton(instance, this, window, location) ==
    IF location \in {"localStorage", "sessionStorage"} /\ location \notin window
    THEN [instance |-> instance, result |-> NoInstance,
          err |-> Storage_NoStorageSupportedError]
    ELSE [instance |-> [this EXCEPT !.cacheLocation = location],
          result |-> [this EXCEPT !.cacheLocation = location], err |-> NoError]

\* Storage.constructor: instance is the static Storage.instance, this the object
\* under construction; result is what the new expression evaluates to.
Storage_constructor(instance, this, window, location) ==
    IF instance # NoInstance
    THEN [instance |-> instance, result |-> instance, err |-> NoError]
    ELSE IF /\ location \in {"localStorage", "sessionStorage"}
            /\ location \notin window
         THEN [instance |-> instance, result |-> NoInstance,
               err |-> Storage_NoStorageSupportedError]
         ELSE [instance |-> [this EXCEPT !.cacheLocation = location],
               result |-> [this EXCEPT !.cacheLocation = location], err |-> NoError]
----------------------------------------------------------------------------
(* The state machine: one cache over one storage area, driven call by call *)

\* Facade calls made in one page session.
MaxOps == 2

\* Request states, account identifiers and values the callers pass.
state1 == <<"s", "1">>

States == {EmptyString, state1}

accountPlus == <<"u", "+", ".", "t">>
accountPlain == <<"v", ".", "t">>

\* JSON.stringify of an access-token key
accessTokenKey(cid, homeAccountIdentifier) ==
    <<"{", "\"", "c", "\"", ":", "\"">> \o cid \o <<"\"", ",", "\"", "h", "\"", ":", "\"">> \o homeAccountIdentifier \o <<"\"", "}">>

renewStatusKey(state) == TemporaryCacheKeys_RENEW_STATUS \o <<"|">> \o state

Keys == { generateAuthorityKey(state1),
          renewStatusKey(state1),
          accessTokenKey(clientId, accountPlain),
          cachePrefix \o <<".">> \o generateAuthorityKey(state1) }

Values == {<<"1">>, inProgress}

\* The keys the callers mirror to a cookie.
MirroredKeys == {generateAuthorityKey(state1)}

\* Cookie names the callers pass to the cookie operations.
CookieNames == {generateAuthorityKey(state1), <<"x">>}

\* What storage and cookies hold when the page loads: data of another application,
\* alone or with what older libraries (the ADAL id token, a legacy-schema id token
\* and a renewal flag of the Storage class) and an earlier page session of this
\* cache left behind.
ForeignWorld ==
    [store |-> <<[key |-> <<"u", "n", "r", "e", "l", "a", "t", "e", "d", ".", "b", "a", "r">>, value |-> <<"x">>]>>, jar |-> <<>>]

OlderVersionWorld ==
    [store |-> ForeignWorld.store \o
               << [key |-> adalIdToken, value |-> <<"x">>],
                  [key |-> legacyKeyOf(PersistentCacheKeys_IDTOKEN), value |-> <<"0">>],
                  [key |-> Constants_renewStatus \o state1,
                   value |-> Constants_tokenRenewStatusInProgress] >>,
     jar |-> <<>>]

\* The world of a call on area `store` of a host that exposes it.
CallWorld(store, jar, failAt, exposed, custom) ==
    [store |-> store, jar |-> jar, log |-> <<>>, err |-> NoError, calls |-> 0,
     failAt |-> failAt, exposed |-> exposed, custom |-> custom]

RECURSIVE SetAll(_, _)
SetAll(w, calls) ==
    IF calls = <<>> THEN w
    ELSE SetAll(AuthCache_setItem(w, calls[1][1], calls[1][2], calls[1][3], clientId),
                Tail(calls))

EarlierSessionWorld ==
    LET w == SetAll(CallWorld(OlderVersionWorld.store, OlderVersionWorld.jar, 0, TRUE, FALSE),
                    << <<generateAuthorityKey(state1), <<"1">>, TRUE>>,
                       <<renewStatusKey(state1), inProgress, FALSE>>,
                       <<renewStatusKey(EmptyString), inProgress, FALSE>>,
                       <<TemporaryCacheKeys_INTERACTION_STATUS, inProgress, FALSE>>,
                       <<TemporaryCacheKeys_REDIRECT_REQUEST, <<"1">>, FALSE>>,
                       <<accessTokenKey(clientId, accountPlus), <<"1">>, FALSE>>,
                       <<accessTokenKey(clientId, <<"u", "u", "x", "t">>), <<"1">>, FALSE>>,
                       <<accessTokenKey(clientId, accountPlain), <<"1">>, FALSE>> >>)
    IN  [store |-> w.store, jar |-> w.jar]

InitialWorlds == {ForeignWorld, EarlierSessionWorld}

\* Hosts: a browser that exposes both Web Storage areas and whose custom storage
\* implements every method; and one that exposes neither area (storage disabled)
\* and whose custom storage rejects operations.
FullHost == [window |-> {"localStorage", "sessionStorage"}, rejects |-> FALSE]

RestrictedHost == [window |-> {}, rejects |-> TRUE]

NoCall ==
    [op |-> "none", key |-> Null, value |-> Null, cookie |-> FALSE, state |-> Null,
     cid |-> Null, hid |-> Null, location |-> Undefined, result |-> Null,
     answer |-> FALSE, tokens |-> <<>>, log |-> <<>>, err |-> NoError,
     instance |-> NoInstance,
     before |-> [store |-> <<>>, jar |-> <<>>],
     after |-> [store |-> <<>>, jar |-> <<>>]]

NoPrev == [op |-> "none", key |-> Null, value |-> Null, cookie |-> FALSE, err |-> NoError]

\* The world of a call of an instance on `location`, and of this instance.
WorldAt(location, failAt) ==
    CallWorld(IF location \in CacheLocations THEN storage[getStorage(location)] ELSE <<>>,
              cookies, failAt,
              location = CustomStorageInstance \/ location \in host.window,
              location = CustomStorageInstance)

World == WorldAt(cacheLocation, 0)

\* Which storage operation of a call the custom storage rejects (0: none): set
\* and remove make two storage operations, get makes one.
FailPointsAt(location) ==
    IF host.rejects /\ location = CustomStorageInstance THEN {0, 1, 2} ELSE {0}

Constructed == cacheLocation # Undefined

Commit(w) ==
    /\ storage' = [storage EXCEPT ![getStorage(cacheLocation)] = w.store]
    /\ cookies' = w.jar

Record(call, w) ==
    /\ last' = [call EXCEPT !.before = [store |-> storage[getStorage(cacheLocation)],
                                        jar |-> cookies],
                            !.after = [store |-> w.store, jar |-> w.jar],
                            !.log = w.log, !.err = w.err]
    /\ prev' = [op |-> last.op, key |-> last.key, value |-> last.value,
                cookie |-> last.cookie, err |-> last.err]
    /\ nOps' = nOps + 1
    /\ UNCHANGED <<host, cacheLocation, migration, tasks, Storage_instance>>

NoMigration == [status |-> "none", idTokenValue |-> Null]

InitOn(h, worlds) ==
    /\ host = h
    /\ cacheLocation = Undefined
    /\ migration = NoMigration
    /\ \E w \in worlds :
         /\ storage = [l \in CacheLocations |-> w.store]
         /\ cookies = w.jar
    /\ last = NoCall
    /\ prev = NoPrev
    /\ nOps = 0
    /\ tasks = <<>>
    /\ Storage_instance = NoInstance

Init == InitOn(FullHost, InitialWorlds)

\* new AuthCache(clientId, location, storeAuthStateInCookie)
Construct(location) ==
    /\ ~Constructed
    /\ last.op = "none"
    /\ \E f \in FailPointsAt(location) :
         \E r \in {AuthCache_constructor(WorldAt(location, f),
                                          [cacheLocation |-> Undefined, err |-> NoError],
                                          host.window, location)} :
         LET started == r.this.err = NoError /\ r.world.log # <<>>
                        /\ ~r.world.log[1].rejected
         IN  /\ cacheLocation' = r.this.cacheLocation
             /\ migration' =
                    IF started
                    THEN [status |-> "pending",
                          idTokenValue |-> AreaGetItem(r.world.store,
                                                       legacyKeyOf(migrateKeys[1]))]
                    ELSE [status |-> "aborted", idTokenValue |-> Null]
             /\ last' = [NoCall EXCEPT !.op = "constructor", !.location = location,
                                       !.log = r.world.log, !.err = r.this.err]
    /\ UNCHANGED <<host, storage, cookies, prev, nOps, tasks, Storage_instance>>

\* migrateCacheEntries resumes after its first await.
Migrate ==
    /\ migration.status = "pending"
    /\ \E f \in FailPointsAt(cacheLocation) :
         \E w \in {AuthCache_migrateCacheEntries(WorldAt(cacheLocation, f),
                                                  migration.idTokenValue,
                                                  storeAuthStateInCookie)} : Commit(w)
    /\ migration' = [status |-> "done", idTokenValue |-> Null]
    /\ UNCHANGED <<host, cacheLocation, last, prev, nOps, tasks, Storage_instance>>

SetItem(key, value, enableCookieStorage) ==
    /\ Constructed /\ nOps < MaxOps
    /\ \E f \in FailPointsAt(cacheLocation) :
         \E w \in {AuthCache_setItem(WorldAt(cacheLocation, f), key, value,
                                    enableCookieStorage, clientId)} :
             /\ Commit(w)
             /\ Record([NoCall EXCEPT !.op = "setItem", !.key = key, !.value = value,
                                      !.cookie = enableCookieStorage], w)

GetItem(key, enableCookieStorage) ==
    /\ Constructed /\ nOps < MaxOps
    /\ \E f \in FailPointsAt(cacheLocation) :
         \E w \in {AuthCache_getItem_calls(WorldAt(cacheLocation, f), key,
                                          enableCookieStorage, clientId, TRUE)} :
             /\ Commit(w)
             /\ Record([NoCall EXCEPT
                            !.op = "getItem", !.key = key, !.cookie = enableCookieStorage,
                            !.result = IF Thrown(w) THEN Null
                                       ELSE AuthCache_getItem(World, key, enableCookieStorage,
                                                              clientId)], w)

RemoveItem(key) ==
    /\ Constructed /\ nOps < MaxOps
    /\ \E f \in FailPointsAt(cacheLocation) :
         \E w \in {AuthCache_removeItem(WorldAt(cacheLocation, f), key, clientId)} :
             /\ Commit(w)
             /\ Record([NoCall EXCEPT !.op = "removeItem", !.key = key], w)

ResetCacheItems ==
    /\ Constructed /\ nOps < MaxOps
    /\ \E f \in FailPointsAt(cacheLocation) :
         \E w \in {AuthCache_resetCacheItems(WorldAt(cacheLocation, f))} :
             /\ Commit(w)
             /\ Record([NoCall EXCEPT !.op = "resetCacheItems"], w)

ResetTempCacheItems(state) ==
    /\ Constructed /\ nOps < MaxOps
    /\ \E f \in FailPointsAt(cacheLocation) :
         \E w \in {AuthCache_resetTempCacheItems(WorldAt(cacheLocation, f), state, clientId)} :
             /\ Commit(w)
             /\ Record([NoCall EXCEPT !.op = "resetTempCacheItems", !.state = state], w)

GetAllAccessTokens(cid, homeAccountIdentifier) ==
    /\ Constructed /\ nOps < MaxOps
    /\ \E f \in FailPointsAt(cacheLocation) :
         \E w \in {AuthCache_getAllAccessTokens_calls(WorldAt(cacheLocation, f), cid,
                                                     homeAccountIdentifier, clientId)} :
             /\ Commit(w)
             /\ Record([NoCall EXCEPT
                            !.op = "getAllAccessTokens", !.cid = cid,
                            !.hid = homeAccountIdentifier,
                            !.tokens = IF Thrown(w) THEN <<>>
                                       ELSE AuthCache_getAllAccessTokens(
                                                World, cid, homeAccountIdentifier, clientId)],
                       w)

RemoveAcquireTokenEntries(state) ==
    /\ Constructed /\ nOps < MaxOps
    /\ \E f \in FailPointsAt(cacheLocation) :
         \E w \in {Storage_removeAcquireTokenEntries(WorldAt(cacheLocation, f), state)} :
             /\ Commit(w)
             /\ Record([NoCall EXCEPT !.op = "removeAcquireTokenEntries", !.state = state],
                       w)

\* await tokenRenewalInProgress(state): the value the Promise settles with.
TokenRenewalInProgress(state) ==
    /\ Constructed /\ nOps < MaxOps
    /\ \E f \in FailPointsAt(cacheLocation) :
         \E w \in {AuthCache_tokenRenewalInProgress_calls(WorldAt(cacheLocation, f), state,
                                                         clientId, TRUE)} :
             /\ Commit(w)
             /\ Record([NoCall EXCEPT
                            !.op = "tokenRenewalInProgress", !.state = state,
                            !.answer = /\ ~Thrown(w)
                                       /\ AuthCache_tokenRenewalInProgress(
                                              World, state, clientId).settled], w)

StorageTokenRenewalInProgress(state) ==
    /\ Constructed /\ nOps < MaxOps
    /\ \E f \in FailPointsAt(cacheLocation) :
         \E w \in {Storage_tokenRenewalInProgress_calls(WorldAt(cacheLocation, f), state, TRUE)} :
             /\ Commit(w)
             /\ Record([NoCall EXCEPT
                            !.op = "Storage.tokenRenewalInProgress", !.state = state,
                            !.answer = /\ ~Thrown(w)
                                       /\ Storage_tokenRenewalInProgress(World, state).settled],
                       w)

SetItemCookie(cName, cValue, expires) ==
    /\ Constructed /\ nOps < MaxOps
    /\ \E w \in {AuthCache_setItemCookie(World, cName, cValue, expires, clientId)} :
           /\ Commit(w)
           /\ Record([NoCall EXCEPT !.op = "setItemCookie", !.key = cName,
                                    !.value = cValue], w)

GetItemCookie(cName) ==
    /\ Constructed /\ nOps < MaxOps
    /\ Commit(World)
    /\ Record([NoCall EXCEPT !.op = "getItemCookie", !.key = cName,
                             !.result = AuthCache_getItemCookie(World, cName, clientId)],
              World)

ClearItemCookie(cName) ==
    /\ Constructed /\ nOps < MaxOps
    /\ \E w \in {clearItemCookie(World, cName, clientId)} :
           /\ Commit(w)
           /\ Record([NoCall EXCEPT !.op = "clearItemCookie", !.key = cName], w)

\* The facade over one storage area.
Next ==
    \/ \E l \in CacheLocations : Construct(l)
    \/ Migrate
    \/ \E k \in Keys, v \in Values : SetItem(k, v, FALSE)
    \/ \E k \in MirroredKeys, v \in Values : SetItem(k, v, TRUE)
    \/ \E k \in Keys : GetItem(k, FALSE)
    \/ \E k \in MirroredKeys : GetItem(k, TRUE)
    \/ \E k \in Keys : RemoveItem(k)
    \/ ResetCacheItems
    \/ \E s \in States : ResetTempCacheItems(s)
    \/ \E h \in {accountPlus, accountPlain} : GetAllAccessTokens(clientId, h)
    \/ \E s \in States : RemoveAcquireTokenEntries(s)

Spec == Init /\ [][Next]_vars

\* set, get and remove on a host without Web Storage whose custom storage rejects
\* operations.
NextHost ==
    \/ \E l \in CacheLocations : Construct(l)
    \/ Migrate
    \/ \E k \in Keys : SetItem(k, <<"1">>, FALSE)
    \/ \E k \in MirroredKeys : SetItem(k, <<"1">>, TRUE)
    \/ \E k \in Keys : GetItem(k, FALSE)
    \/ \E k \in MirroredKeys : GetItem(k, TRUE)
    \/ \E k \in Keys : RemoveItem(k)

SpecHost == InitOn(RestrictedHost, {EarlierSessionWorld}) /\ [][NextHost]_vars

\* The cookie operations and the renewal-flag queries.
NextQueries ==
    \/ \E l \in CacheLocations : Construct(l)
    \/ Migrate
    \/ \E k \in {renewStatusKey(state1)}, v \in Values : SetItem(k, v, FALSE)
    \/ \E k \in {renewStatusKey(state1)} : RemoveItem(k)
    \/ \E s \in States : TokenRenewalInProgress(s)
    \/ \E s \in States : StorageTokenRenewalInProgress(s)
    \/ \E n \in CookieNames, v \in {<<"y">>, <<"a", ";", "b">>} : SetItemCookie(n, v, 1)
    \/ \E n \in CookieNames : GetItemCookie(n)
    \/ \E n \in CookieNames : ClearItemCookie(n)

SpecQueries == Init /\ [][NextQueries]_vars

\* generateCacheKey as a function: the keys it is given, bare or already carrying
\* a prefix, and its repeated application to its own result.
KeyPrefixes ==
    { EmptyString, cachePrefix \o <<".">>, cachePrefix \o <<".">> \o clientId \o <<".">>,
      adalIdToken, <<"x">> \o cachePrefix \o <<".">> }

KeyBodies ==
    { generateAuthorityKey(state1), <<"i", "d", "t", "o", "k", "e", "n">>, accessTokenKey(clientId, accountPlain),
      <<"7">>, <<"\"", "m", "s", "a", "l", "\"">>, <<"{">> }

InitKeys ==
    /\ host = FullHost
    /\ cacheLocation = Undefined
    /\ migration = NoMigration
    /\ storage = [l \in CacheLocations |-> <<>>]
    /\ cookies = <<>>
    /\ \E p \in KeyPrefixes, b \in KeyBodies : last = [NoCall EXCEPT !.result = p \o b]
    /\ prev = NoPrev
    /\ nOps = 0
    /\ tasks = <<>>
    /\ Storage_instance = NoInstance

\* this.generateCacheKey(key, addInstanceId), applied to the key or to the result
\* of the application before.
GenerateCacheKey(addInstanceId) ==
    /\ nOps < MaxOps
    /\ last' = [last EXCEPT !.op = "generateCacheKey", !.key = last.result,
                            !.cookie = addInstanceId,
                            !.result = generateCacheKey(clientId, last.result, addInstanceId)]
    /\ prev' = [prev EXCEPT !.op = last.op, !.key = last.key, !.cookie = last.cookie]
    /\ nOps' = nOps + 1
    /\ UNCHANGED <<host, cacheLocation, migration, storage, cookies, tasks,
                   Storage_instance>>

NextKeys == \E g \in BOOLEAN : GenerateCacheKey(g)

SpecKeys == InitKeys /\ [][NextKeys]_vars


----------------------------------------------------------------------------
(* The Storage class constructed several times in one page *)

\* new Storage(...) expressions evaluated in one page.
MaxNew == 4

\* The page loads in a browser that exposes both storage areas, localStorage only,
\* or none.
InitSingleton ==
    \E h \in {FullHost, [window |-> {"localStorage"}, rejects |-> FALSE], RestrictedHost} :
        InitOn(h, {ForeignWorld})

\* new Storage(location): the object under construction is the nOps + 1st of the page.
StorageConstruct(location) ==
    /\ nOps < MaxNew
    /\ \E r \in {Storage_constructor(Storage_instance,
                                      [id |-> nOps + 1, cacheLocation |-> Undefined],
                                      host.window, location)} :
         /\ Storage_instance' = r.instance
         /\ last' = [NoCall EXCEPT !.op = "Storage.constructor", !.location = location,
                                   !.instance = Storage_instance, !.result = r.result,
                                   !.err = r.err]
    /\ prev' = [prev EXCEPT !.op = last.op, !.err = last.err]
    /\ nOps' = nOps + 1
    /\ UNCHANGED <<host, cacheLocation, migration, storage, cookies, tasks>>

NextSingleton == \E l \in CacheLocations : StorageConstruct(l)

SpecSingleton == InitSingleton /\ [][NextSingleton]_vars

----------------------------------------------------------------------------
(* The async methods followed await by await: every await of a storage       *)
(* operation is a point where the other calls in flight may run; on a custom *)
(* storage the awaited operations settle in any order.                       *)

\* Facade calls the callers issue in one page session.
MaxCalls == 2

\* The client id of a second application on the same origin.
otherClientId == <<"b", "2">>

\* The keys and the storage the concurrent calls work on: the id token, which the
\* constructor migrates, and an authority entry; a storage area left by an older
\* version with an id token and an empty error entry under the legacy schema.
AsyncKeys == {PersistentCacheKeys_IDTOKEN, generateAuthorityKey(state1)}

MigrationWorld ==
    [store |-> OlderVersionWorld.store \o
               <<[key |-> legacyKeyOf(ErrorCacheKeys_ERROR), value |-> EmptyString]>>,
     jar |-> <<>>]

\* A call of an async method: pc counts its awaits that have settled.
NewTask(op, cid, key, value, cookie, by) ==
    [op |-> op, cid |-> cid, key |-> key, value |-> value, cookie |-> cookie,
     by |-> by, pc |-> 0, values |-> <<>>, result |-> Null]

\* The awaits of a call: the four reads of migrateCacheEntries, the read of
\* getItem, the current- and legacy-schema operation of setItem and removeItem.
Awaits(t) ==
    IF t.op = "migrateCacheEntries" THEN Len(migrateKeys)
    ELSE IF t.op = "getItem" THEN 1
    ELSE IF rollbackEnabled THEN 2 ELSE 1

Done(t) == t.pc = Awaits(t)

\* The storage operation the call awaits at its pc, performed on world w.
AwaitedCall(w, t) ==
    IF t.op = "setItem"
    THEN BrowserStorage_setItem(w, generateCacheKey(t.cid, t.key, t.pc = 0), t.value,
                                t.cookie, t.cid)
    ELSE IF t.op = "removeItem"
    THEN BrowserStorage_removeItem(w, generateCacheKey(t.cid, t.key, t.pc = 0))
    ELSE w

\* The value the awaited read settles with.
AwaitedValue(w, t) ==
    IF t.op = "getItem" THEN AuthCache_getItem(w, t.key, t.cookie, t.cid)
    ELSE IF t.op = "migrateCacheEntries"
    THEN BrowserStorage_getItem(w, legacyKeyOf(migrateKeys[t.pc + 1]), FALSE, t.cid)
    ELSE Null

\* The call after the await at its pc has settled.
Resumed(t, w) ==
    Bind(AwaitedValue(w, t), LAMBDA v :
        [t EXCEPT !.pc = @ + 1,
                  !.values = IF t.op = "migrateCacheEntries" THEN Append(@, v) ELSE @,
                  !.result = IF t.op = "getItem" THEN v ELSE @])

duplicateCacheEntry_start_always(newKey, value, cookie, cid) ==
    <<NewTask("setItem", cid, newKey, value, cookie, "migrateCacheEntries")>>

\* AuthCache.duplicateCacheEntry: the setItem call it starts and does not await.
duplicateCacheEntry_start(newKey, value, cookie, cid) ==
    IF Truthy(value)
    THEN <<NewTask("setItem", cid, newKey, value, cookie, "migrateCacheEntries")>>
    ELSE <<>>

\* keysToMigrate.forEach(...) of migrateCacheEntries: the calls it starts.
RECURSIVE migrateStarts(_, _, _, _)
migrateStarts(values, i, cookie, cid) ==
    IF i > Len(migrateKeys) THEN <<>>
    ELSE duplicateCacheEntry_start(migrateKeys[i], values[i], cookie, cid)
         \o migrateStarts(values, i + 1, cookie, cid)

\* The calls a resumed call starts before it returns or awaits again.
Started(t) ==
    IF t.op = "migrateCacheEntries" /\ Done(t)
    THEN migrateStarts(t.values, 1, t.cookie, t.cid)
    ELSE <<>>

\* The instances constructed so far, by client id.
Instances == {tasks[i].cid : i \in {j \in DOMAIN tasks : tasks[j].op = "migrateCacheEntries"}}

\* new AuthCache(cid, location, storeAuthStateInCookie): the constructor returns
\* with migrateCacheEntries in flight.
ConstructAsync(cid, location) ==
    /\ cacheLocation \in {Undefined, location}
    /\ cid \notin Instances
    /\ \E t \in {BrowserStorage_constructor([cacheLocation |-> Undefined, err |-> NoError],
                                            host.window, location)} :
         /\ t.err = NoError
         /\ cacheLocation' = t.cacheLocation
    /\ tasks' = Append(tasks, NewTask("migrateCacheEntries", cid, Null, Null,
                                      storeAuthStateInCookie, "constructor"))
    /\ UNCHANGED <<host, migration, storage, cookies, last, prev, nOps, Storage_instance>>

\* A caller calls setItem, removeItem or getItem of the instance of cid and does
\* not wait for the calls made before.
Issue(op, cid, key, value, cookie) ==
    /\ cid \in Instances
    /\ nOps < MaxCalls
    /\ tasks' = Append(tasks, NewTask(op, cid, key, value, cookie, "caller"))
    /\ nOps' = nOps + 1
    /\ UNCHANGED <<host, cacheLocation, migration, storage, cookies, last, prev,
                   Storage_instance>>

\* The storage operation call i awaits settles and the call runs on to its next
\* await or to its end.
Await(i) ==
    /\ i \in DOMAIN tasks
    /\ ~Done(tasks[i])
    /\ \E w \in {AwaitedCall(World, tasks[i])} :
         \E t \in {Resumed(tasks[i], World)} :
             /\ Commit(w)
             /\ tasks' = [tasks EXCEPT ![i] = t] \o Started(t)
    /\ UNCHANGED <<host, cacheLocation, migration, last, prev, nOps, Storage_instance>>

InitAsync == InitOn(FullHost, {MigrationWorld})

\* One instance on a custom storage; set and remove calls on the same keys in flight
\* together with each other and with the migration.
NextAsync ==
    \/ ConstructAsync(clientId, CustomStorageInstance)
    \/ \E k \in AsyncKeys, v \in Values : Issue("setItem", clientId, k, v, FALSE)
    \/ \E k \in AsyncKeys : Issue("removeItem", clientId, k, Null, FALSE)
    \/ \E i \in DOMAIN tasks : Await(i)

SpecAsync == InitAsync /\ [][NextAsync]_vars

\* One instance whose callers leave the migrated keys alone. Every storage
\* operation settles and the event loop resumes the call that awaits it.
NextMigration ==
    \/ \E l \in CacheLocations : ConstructAsync(clientId, l)
    \/ Issue("setItem", clientId, generateAuthorityKey(state1), <<"1">>, FALSE)
    \/ Issue("removeItem", clientId, generateAuthorityKey(state1), Null, FALSE)
    \/ Issue("getItem", clientId, generateAuthorityKey(state1), Null, FALSE)
    \/ \E i \in DOMAIN tasks : Await(i)

SpecMigration ==
    InitAsync /\ [][NextMigration]_vars /\ WF_vars(\E i \in DOMAIN tasks : Await(i))

\* Two instances with different client ids on one custom storage: the callers of
\* the second set and remove, the callers of the first read.
NextClients ==
    \/ \E c \in {clientId, otherClientId} : ConstructAsync(c, CustomStorageInstance)
    \/ \E k \in AsyncKeys : Issue("setItem", otherClientId, k, <<"1">>, FALSE)
    \/ \E k \in AsyncKeys : Issue("removeItem", otherClientId, k, Null, FALSE)
    \/ \E k \in AsyncKeys : Issue("getItem", clientId, k, Null, FALSE)
    \/ \E i \in DOMAIN tasks : Await(i)

SpecClients == InitAsync /\ [][NextClients]_vars
----------------------------------------------------------------------------
(* Properties.  Before/After are the storage area and cookie jar around the *)
(* last facade call; the key scheme below is the documented one.            *)

Before == last.before

After == last.after

Contains(s, t) == \E i \in 1..(Len(s) - Len(t) + 1) : SubSeq(s, i, i + Len(t) - 1) = t

StartsWith(s, t) == Len(t) <= Len(s) /\ SubSeq(s, 1, Len(t)) = t

HasKey(b, key) == \E i \in DOMAIN b : b[i].key = key

Holds(b, key, value) == \E i \in DOMAIN b : b[i] = [key |-> key, value |-> value]

ValueAt(b, key) == IF HasKey(b, key) THEN b[CHOOSE i \in DOMAIN b : b[i].key = key].value ELSE Null

Kept(e) == \E j \in DOMAIN After.store : After.store[j] = e

IsPrefixed(k) == StartsWith(k, cachePrefix) \/ StartsWith(k, adalIdToken)

CurrentSchemaKey(k) ==
    IF JSONParses(k) \/ IsPrefixed(k) THEN k ELSE cachePrefix \o <<".">> \o clientId \o <<".">> \o k

LegacySchemaKey(k) ==
    IF JSONParses(k) \/ IsPrefixed(k) THEN k ELSE cachePrefix \o <<".">> \o k

RenewalFlagInProgress(b, state) ==
    Holds(b, CurrentSchemaKey(TemporaryCacheKeys_RENEW_STATUS \o <<"|">> \o state), inProgress)

GlobalTransientKeys ==
    { CurrentSchemaKey(TemporaryCacheKeys_INTERACTION_STATUS),
      LegacySchemaKey(TemporaryCacheKeys_INTERACTION_STATUS),
      CurrentSchemaKey(TemporaryCacheKeys_REDIRECT_REQUEST),
      LegacySchemaKey(TemporaryCacheKeys_REDIRECT_REQUEST) }

\* C1 as stated: while the renewal flag of S is in progress, resetTempCacheItems(S)
\* keeps every entry whose key contains S, with its value.
C1_ProtectedWindowAllEntries ==
    (last.op = "resetTempCacheItems" /\ RenewalFlagInProgress(Before.store, last.state))
    => \A i \in DOMAIN Before.store :
           Contains(Before.store[i].key, last.state) => Kept(Before.store[i])

\* C1 (amended): while the renewal flag of S is in progress, resetTempCacheItems(S)
\* keeps every entry whose key contains S, with its value, except the entries of
\* the global transient keys interaction_status and redirect_request, which it
\* removes unconditionally.
C1_ProtectedWindow ==
    (last.op = "resetTempCacheItems" /\ RenewalFlagInProgress(Before.store, last.state))
    => \A i \in DOMAIN Before.store :
           (/\ Contains(Before.store[i].key, last.state)
            /\ Before.store[i].key \notin GlobalTransientKeys)
           => Kept(Before.store[i])

C1_Witness ==
    /\ last.op = "resetTempCacheItems"
    /\ last.state = state1
    /\ RenewalFlagInProgress(Before.store, state1)
    /\ HasKey(Before.store, CurrentSchemaKey(generateAuthorityKey(state1)))
    /\ HasKey(After.store, CurrentSchemaKey(generateAuthorityKey(state1)))

\* C2: when the renewal flag of S is not in progress, resetTempCacheItems(S) leaves
\* no entry whose key contains S (no entry at all when S is empty).
C2_ReapsWhenFlagClear ==
    (last.op = "resetTempCacheItems" /\ ~RenewalFlagInProgress(Before.store, last.state))
    => \A j \in DOMAIN After.store : ~Contains(After.store[j].key, last.state)

\* C3: getItem(k) straight after setItem(k, v) returns v, whatever the storage
\* variant.
C3_RoundTrip ==
    (/\ last.op = "getItem" /\ ~last.cookie
     /\ prev.op = "setItem" /\ prev.key = last.key)
    => last.result = prev.value

C3_Witness ==
    /\ last.op = "getItem" /\ ~last.cookie
    /\ prev.op = "setItem" /\ prev.key = last.key
    /\ cacheLocation = CustomStorageInstance
    /\ last.key = generateAuthorityKey(state1)
    /\ last.result = inProgress

\* C4: after setItem(k, v) the current-schema and the legacy-schema key of k both
\* hold v; after removeItem(k) neither key exists.
C4_DualWriteDualRemove ==
    /\ last.op = "setItem"
       => /\ Holds(After.store, CurrentSchemaKey(last.key), last.value)
          /\ Holds(After.store, LegacySchemaKey(last.key), last.value)
    /\ last.op = "removeItem"
       => /\ ~HasKey(After.store, CurrentSchemaKey(last.key))
          /\ ~HasKey(After.store, LegacySchemaKey(last.key))

C4_Witness ==
    /\ last.op = "removeItem"
    /\ prev.op = "setItem" /\ prev.key = last.key
    /\ CurrentSchemaKey(last.key) # LegacySchemaKey(last.key)
    /\ Holds(Before.store, CurrentSchemaKey(last.key), prev.value)
    /\ Holds(Before.store, LegacySchemaKey(last.key), prev.value)
    /\ ~HasKey(After.store, CurrentSchemaKey(last.key))

\* The entries a call appended to the storage area, the older ones unchanged.
Added ==
    IF /\ Len(After.store) >= Len(Before.store)
       /\ SubSeq(After.store, 1, Len(Before.store)) = Before.store
    THEN {After.store[i] : i \in (Len(Before.store) + 1)..Len(After.store)}
    ELSE {}

FreshKey ==
    /\ last.op = "setItem"
    /\ ~HasKey(Before.store, CurrentSchemaKey(last.key))
    /\ ~HasKey(Before.store, LegacySchemaKey(last.key))

OneEntryAdded ==
    /\ Len(After.store) = Len(Before.store) + 1
    /\ Added = {[key |-> last.key, value |-> last.value]}

TwoEntriesAdded ==
    /\ Len(After.store) = Len(Before.store) + 2
    /\ Added = { [key |-> cachePrefix \o <<".">> \o clientId \o <<".">> \o last.key,
                  value |-> last.value],
                 [key |-> cachePrefix \o <<".">> \o last.key, value |-> last.value] }

\* C5 as stated: setItem(k, v) on a storage area holding neither physical key of k
\* adds two entries with value v unless k is structured, and one when it is.
C5_TwoEntriesUnlessStructured ==
    FreshKey => IF JSONParses(last.key) THEN OneEntryAdded ELSE TwoEntriesAdded

\* C5 (amended): setItem(k, v) on a storage area holding neither physical key of k
\* adds two entries with value v (current and legacy schema) when k is neither
\* structured nor already starts with the namespace prefix or the legacy-library
\* prefix, and one entry, under k itself, when k is structured or so prefixed.
C5_TwoEntriesUnlessStructuredOrPrefixed ==
    FreshKey => IF JSONParses(last.key) \/ IsPrefixed(last.key)
                THEN OneEntryAdded
                ELSE TwoEntriesAdded

C5_Witness ==
    /\ FreshKey
    /\ IsPrefixed(last.key)
    /\ ~JSONParses(last.key)
    /\ OneEntryAdded

\* C6: getItem(k) without the cookie mirror returns what the storage area holds
\* under the current-schema key of k, and null when only the legacy-schema key
\* holds a value.
C6_ReadsCurrentSchema ==
    (last.op = "getItem" /\ ~last.cookie)
    => /\ last.result = ValueAt(Before.store, CurrentSchemaKey(last.key))
       /\ ~HasKey(Before.store, CurrentSchemaKey(last.key)) => last.result = Null

C6_Witness ==
    /\ last.op = "getItem" /\ ~last.cookie
    /\ ~HasKey(Before.store, CurrentSchemaKey(last.key))
    /\ Truthy(ValueAt(Before.store, LegacySchemaKey(last.key)))
    /\ last.result = Null

CookieValue(jar, name) ==
    IF \E i \in DOMAIN jar : jar[i].name = name
    THEN jar[CHOOSE i \in DOMAIN jar : jar[i].name = name].value
    ELSE EmptyString

\* C7: getItem(k, true) returns the cookie stored under the current-schema key of
\* k whenever that cookie is non-empty, whatever the storage area holds, and the
\* storage value when the cookie is absent or empty.
C7_CookiePriority ==
    (last.op = "getItem" /\ last.cookie)
    => IF CookieValue(Before.jar, CurrentSchemaKey(last.key)) # EmptyString
       THEN last.result = CookieValue(Before.jar, CurrentSchemaKey(last.key))
       ELSE last.result = ValueAt(Before.store, CurrentSchemaKey(last.key))

C7_Witness ==
    /\ last.op = "getItem" /\ last.cookie
    /\ prev.op = "setItem" /\ prev.key = last.key /\ ~prev.cookie
    /\ ValueAt(Before.store, CurrentSchemaKey(last.key)) = prev.value
    /\ CookieValue(Before.jar, CurrentSchemaKey(last.key)) # EmptyString
    /\ last.result # prev.value
    /\ last.result = CookieValue(Before.jar, CurrentSchemaKey(last.key))

\* C8: resetCacheItems removes exactly the entries whose key contains the
\* namespace prefix; every other entry keeps its place and value, none is added.
C8_ResetAllFrame ==
    last.op = "resetCacheItems"
    => After.store = SelectSeq(Before.store, LAMBDA e : ~Contains(e.key, cachePrefix))

C8_Witness ==
    /\ last.op = "resetCacheItems"
    /\ \E i \in DOMAIN Before.store : Contains(Before.store[i].key, cachePrefix)
    /\ \E i \in DOMAIN After.store : After.store[i].key = <<"u", "n", "r", "e", "l", "a", "t", "e", "d", ".", "b", "a", "r">>
    /\ Len(After.store) < Len(Before.store)

\* C9: getAllAccessTokens(clientId, homeAccountIdentifier) returns, in enumeration
\* order, one item for each entry whose key contains both arguments as substrings
\* and whose key and value decode as JSON, and leaves the storage area unchanged.
C9_AccessTokensBySubstring ==
    last.op = "getAllAccessTokens"
    => /\ last.tokens = SelectSeq(Before.store, LAMBDA e :
                            /\ Contains(e.key, last.cid)
                            /\ Contains(e.key, last.hid)
                            /\ JSONParses(e.key)
                            /\ JSONParses(e.value))
       /\ After.store = Before.store

\* The tagging and the embedded state of the keys that generateAuthorityKey and
\* generateAcquireTokenAccountKey of the Storage class build.
IsAuthorityKey(key) == Contains(key, CacheKeys_AUTHORITY)

IsAcquireTokenAccountKey(key) == Contains(key, CacheKeys_ACQUIRE_TOKEN_ACCOUNT)

EmbeddedState(key) ==
    LET seg == Split(key, resourceDelimiter)
        at == IF IsAuthorityKey(key) THEN 2 ELSE 3
    IN  IF Len(seg) >= at THEN seg[at] ELSE Null

StorageRenewalInProgress(b, state) ==
    Holds(b, Constants_renewStatus \o state, Constants_tokenRenewStatusInProgress)

\* C10: removeAcquireTokenEntries(state) removes a tagged entry (authority or
\* acquire-token-account, containing state when given) with embedded state S, and
\* the renewal-status entry of S, iff the renewal flag of S is not in progress;
\* an untagged entry is never removed.
C10_RemovesUnlessInProgress ==
    last.op = "removeAcquireTokenEntries"
    => \A i \in DOMAIN Before.store :
         LET key == Before.store[i].key
             tagged == IsAuthorityKey(key) \/ IsAcquireTokenAccountKey(key)
         IN  /\ (/\ tagged
                 /\ (last.state = EmptyString \/ Contains(key, last.state))
                 /\ Truthy(EmbeddedState(key)))
                => (~StorageRenewalInProgress(Before.store, EmbeddedState(key))
                    <=> /\ ~HasKey(After.store, key)
                        /\ ~HasKey(After.store, Constants_renewStatus \o EmbeddedState(key)))
             /\ (~tagged /\ ~StartsWith(key, Constants_renewStatus))
                => Kept(Before.store[i])


----------------------------------------------------------------------------
(* Properties of the cleanup, construction, failure, cookie and ordering     *)
(* behaviour.                                                               *)

\* C11: after resetTempCacheItems(state) has completed, whatever the state and the
\* renewal flags, the storage area holds no entry under the current-schema or the
\* legacy-schema key of interaction_status and redirect_request.
C11_GlobalTransientKeysRemoved ==
    (last.op = "resetTempCacheItems" /\ last.err = NoError)
    => \A k \in GlobalTransientKeys : ~HasKey(After.store, k)

C11_Witness ==
    /\ last.op = "resetTempCacheItems" /\ last.err = NoError
    /\ RenewalFlagInProgress(Before.store, last.state)
    /\ \A k \in GlobalTransientKeys : HasKey(Before.store, k)
    /\ \A k \in GlobalTransientKeys : ~HasKey(After.store, k)

NamedLocations == {"localStorage", "sessionStorage"}

\* C12: constructing a cache on localStorage or sessionStorage in a host that does
\* not expose that storage area fails with the storage-not-supported configuration
\* error and leaves no instance to call.
C12_UnsupportedBackendRejected ==
    (/\ last.op = "constructor"
     /\ last.location \in NamedLocations
     /\ last.location \notin host.window)
    => /\ last.err = StorageNotSupportedError
       /\ ~Constructed

\* The storage operations of the last call, by position in its log.
IsStorageOp(e) == e.kind # "cookie"

\* C13: when the custom storage rejects an operation that setItem, getItem or
\* removeItem invoked, the call fails with that error, and the call does not
\* invoke the rejected operation again.
C13_BackendErrorPropagates ==
    last.op \in {"setItem", "getItem", "removeItem"}
    => \A i \in DOMAIN last.log :
           last.log[i].rejected
           => /\ last.err = CustomStorageNotImplementedError
              /\ \A j \in DOMAIN last.log :
                     j > i => ~(/\ last.log[j].kind = last.log[i].kind
                                /\ last.log[j].key = last.log[i].key)

C13_Witness ==
    /\ last.op = "setItem"
    /\ cacheLocation = CustomStorageInstance
    /\ Len(last.log) >= 2
    /\ ~last.log[1].rejected
    /\ last.log[Len(last.log)].rejected
    /\ last.log[Len(last.log)].kind = "setItem"
    /\ last.err = CustomStorageNotImplementedError
    /\ HasKey(After.store, CurrentSchemaKey(last.key))
    /\ ~HasKey(After.store, LegacySchemaKey(last.key))

\* C14: removeItem(k) when neither physical key of k is stored does not throw and
\* leaves the storage area and the cookies unchanged; a second setItem(k, v) with
\* the same arguments leaves the storage area and the cookies as the first left
\* them.
C14_Idempotence ==
    /\ (/\ last.op = "removeItem"
        /\ ~HasKey(Before.store, CurrentSchemaKey(last.key))
        /\ ~HasKey(Before.store, LegacySchemaKey(last.key)))
       => (last.err = NoError /\ After = Before)
    /\ (/\ last.op = "setItem" /\ prev.op = "setItem"
        /\ last.err = NoError /\ prev.err = NoError
        /\ prev.key = last.key /\ prev.value = last.value /\ prev.cookie = last.cookie)
       => After = Before

C14_Witness ==
    /\ last.op = "setItem" /\ prev.op = "setItem"
    /\ prev.key = last.key /\ prev.value = last.value /\ prev.cookie = last.cookie
    /\ last.cookie
    /\ CurrentSchemaKey(last.key) # LegacySchemaKey(last.key)
    /\ last.value = inProgress
    /\ Holds(After.store, LegacySchemaKey(last.key), inProgress)
    /\ After = Before

\* C15: generateCacheKey applied to its own result, for either generation, returns
\* that result; a key that parses as JSON and a key that starts with the namespace
\* prefix or the ADAL id-token prefix is returned unchanged for both generations.
C15_NamespacingIdempotent ==
    last.op = "generateCacheKey"
    => /\ prev.op = "generateCacheKey" => last.result = last.key
       /\ (JSONParses(last.key) \/ IsPrefixed(last.key)) => last.result = last.key

C15_Witness ==
    /\ last.op = "generateCacheKey" /\ prev.op = "generateCacheKey"
    /\ last.cookie /\ ~prev.cookie
    /\ last.key = LegacySchemaKey(generateAuthorityKey(state1))
    /\ last.result = last.key

HasCookie(jar, name) == \E i \in DOMAIN jar : jar[i].name = name

\* C16: getItemCookie(x) straight after setItemCookie(x, y, 1) with a non-empty y
\* returns y; straight after clearItemCookie(x) it returns the empty string; and
\* it returns the empty string when no cookie of that name exists.
C16_CookieRoundTrip ==
    last.op = "getItemCookie"
    => /\ (prev.op = "setItemCookie" /\ prev.key = last.key /\ prev.value # EmptyString)
          => last.result = prev.value
       /\ (prev.op = "clearItemCookie" /\ prev.key = last.key)
          => last.result = EmptyString
       /\ ~HasCookie(Before.jar, CurrentSchemaKey(last.key))
          => last.result = EmptyString

\* C17: tokenRenewalInProgress(state) answers true exactly when the renewal-status
\* entry of state (under the current-schema key for AuthCache, under
\* Constants.renewStatus + state for the Storage class) holds the in-progress
\* sentinel, false when it is absent or holds another value, and changes nothing.
C17_RenewalInProgressIffSentinel ==
    /\ last.op = "tokenRenewalInProgress"
       => /\ last.answer <=> Holds(Before.store,
                                   CurrentSchemaKey(renewStatusKey(last.state)), inProgress)
          /\ After = Before
    /\ last.op = "Storage.tokenRenewalInProgress"
       => /\ last.answer <=> Holds(Before.store, Constants_renewStatus \o last.state,
                                   Constants_tokenRenewStatusInProgress)
          /\ After = Before

C17_Witness ==
    /\ last.op = "tokenRenewalInProgress"
    /\ prev.op = "setItem"
    /\ last.state = state1
    /\ HasKey(Before.store, CurrentSchemaKey(renewStatusKey(state1)))
    /\ ~Holds(Before.store, CurrentSchemaKey(renewStatusKey(state1)), inProgress)
    /\ Holds(Before.store, LegacySchemaKey(renewStatusKey(EmptyString)), inProgress)
    /\ ~last.answer

\* The cookie names the last call wrote.
CookieWrites == {last.log[i].key : i \in {j \in DOMAIN last.log : last.log[j].kind = "cookie"}}

C19_WriteOrder ==
    (/\ last.op \in {"setItem", "removeItem"}
     /\ last.err = NoError
     /\ CurrentSchemaKey(last.key) # LegacySchemaKey(last.key))
    => \A i \in DOMAIN last.log : \A j \in DOMAIN last.log :
           /\ (/\ IsStorageOp(last.log[i]) /\ last.log[i].key = CurrentSchemaKey(last.key)
               /\ IsStorageOp(last.log[j]) /\ last.log[j].key = LegacySchemaKey(last.key))
              => i < j
           /\ (~IsStorageOp(last.log[i]) /\ IsStorageOp(last.log[j])) => j < i

\* C20: when a call on a custom storage, or the construction of the cache on it,
\* completes, it has awaited every storage operation it started.
C20_EveryOperationAwaited ==
    (last.op # "none" /\ cacheLocation = CustomStorageInstance)
    => \A i \in DOMAIN last.log : IsStorageOp(last.log[i]) => last.log[i].awaited

----------------------------------------------------------------------------
(* Construction, migration and concurrent calls *)

\* C22: once a construction of Storage has succeeded, every later construction,
\* whatever its cacheLocation argument, returns that first instance with the
\* cacheLocation given first, without error; a construction that fails the
\* support check registers no instance; a first successful construction
\* registers the new object with the location it was given.
C22_Singleton ==
    last.op = "Storage.constructor"
    => /\ last.instance # NoInstance
          => /\ last.result = last.instance
             /\ Storage_instance = last.instance
             /\ last.err = NoError
       /\ (last.instance = NoInstance /\ last.err # NoError)
          => /\ Storage_instance = NoInstance
             /\ last.location \in NamedLocations /\ last.location \notin host.window
       /\ (last.instance = NoInstance /\ last.err = NoError)
          => /\ Storage_instance = last.result
             /\ last.result.cacheLocation = last.location
             /\ last.result.id = nOps

C22_Witness ==
    /\ last.op = "Storage.constructor"
    /\ prev.op = "Storage.constructor"
    /\ last.instance # NoInstance
    /\ last.instance.id < nOps - 1
    /\ last.location \in NamedLocations /\ last.location \notin host.window
    /\ last.location # last.instance.cacheLocation
    /\ last.result = last.instance

\* Every call issued or started so far has completed.
AllSettled == \A i \in DOMAIN tasks : Done(tasks[i])

\* The logical keys the callers' calls were issued on.
CallerKeys == {tasks[i].key : i \in {j \in DOMAIN tasks : tasks[j].by = "caller"}}

InSync(store, k) ==
    /\ HasKey(store, CurrentSchemaKey(k)) <=> HasKey(store, LegacySchemaKey(k))
    /\ AreaGetItem(store, CurrentSchemaKey(k)) = AreaGetItem(store, LegacySchemaKey(k))

\* C21: once every issued set and remove call (and the migration) has completed,
\* for every non-structured, non-prefixed logical key the calls were issued on, the
\* current-schema entry and the legacy-schema entry are both absent or both
\* present with the same value.
C21_SchemasInSync ==
    (Constructed /\ AllSettled)
    => \A k \in CallerKeys :
           (~JSONParses(k) /\ ~IsPrefixed(k)) => InSync(World.store, k)

\* C23: when the only call the callers issued on a migrated key k is set(k, v),
\* issued after the constructor returned, then once every pending operation has
\* completed the current-schema entry of k holds v.
C23_MigrationKeepsNewerData ==
    (Constructed /\ AllSettled)
    => \A i \in DOMAIN tasks :
           (/\ tasks[i].by = "caller" /\ tasks[i].op = "setItem"
            /\ \E n \in DOMAIN migrateKeys : migrateKeys[n] = tasks[i].key
            /\ \A j \in DOMAIN tasks :
                   (tasks[j].by = "caller" /\ tasks[j].key = tasks[i].key) => j = i)
           => Holds(World.store, CurrentSchemaKey(tasks[i].key), tasks[i].value)

LegacyValue(k) == AreaGetItem(World.store, legacyKeyOf(k))

\* C24: a non-empty value L under the legacy-schema key of a migrated key at
\* construction leads to a state where the current-schema key and the legacy-schema
\* key both hold L; for a legacy key that is absent or empty, migrateCacheEntries
\* starts no write and the current-schema key stays absent.
C24_MigrationCopiesLegacy ==
    /\ \A n \in DOMAIN migrateKeys :
           (Constructed /\ Truthy(LegacyValue(migrateKeys[n])))
           ~> (/\ Constructed /\ AllSettled
               /\ Truthy(LegacyValue(migrateKeys[n]))
               /\ Holds(World.store, CurrentSchemaKey(migrateKeys[n]),
                        LegacyValue(migrateKeys[n])))
    /\ [](\A n \in DOMAIN migrateKeys :
              (Constructed /\ ~Truthy(LegacyValue(migrateKeys[n])))
              => /\ ~HasKey(World.store, CurrentSchemaKey(migrateKeys[n]))
                 /\ \A i \in DOMAIN tasks :
                        tasks[i].by = "migrateCacheEntries"
                        => tasks[i].key # migrateKeys[n])
    /\ [][Constructed => \A n \in DOMAIN migrateKeys :
                              LegacyValue(migrateKeys[n])' = LegacyValue(migrateKeys[n])]_vars

C24_Witness ==
    /\ Constructed /\ AllSettled
    /\ nOps = MaxCalls
    /\ Holds(World.store, legacyKeyOf(PersistentCacheKeys_IDTOKEN), <<"0">>)
    /\ Holds(World.store, CurrentSchemaKey(PersistentCacheKeys_IDTOKEN), <<"0">>)
    /\ Holds(World.store, legacyKeyOf(ErrorCacheKeys_ERROR), EmptyString)
    /\ ~HasKey(World.store, CurrentSchemaKey(ErrorCacheKeys_ERROR))
    /\ ~HasKey(World.store, legacyKeyOf(PersistentCacheKeys_CLIENT_INFO))
    /\ ~HasKey(World.store, CurrentSchemaKey(PersistentCacheKeys_CLIENT_INFO))

\* What the first instance reads when the second makes no call: the storage at
\* page load and the storage after the first instance's own migration.
ReferenceWorlds ==
    LET w == CallWorld(MigrationWorld.store, MigrationWorld.jar, 0, TRUE, TRUE)
    IN  {w, AuthCache_migrateCacheEntries(
                w, AreaGetItem(w.store, legacyKeyOf(migrateKeys[1])),
                storeAuthStateInCookie)}

\* C25: whatever set and remove calls are made through the instance of another
\* client id, get(k) through the first instance returns what it returns when
\* the other instance makes no call.
C25_ClientIsolation ==
    \A i \in DOMAIN tasks :
        (tasks[i].op = "getItem" /\ tasks[i].cid = clientId /\ Done(tasks[i]))
        => \E rw \in ReferenceWorlds :
               tasks[i].result = AuthCache_getItem(rw, tasks[i].key, tasks[i].cookie,
                                                   clientId)
====
